---- MODULE Spec2Model ----
(***************************************************************************)
(* Model of the document-processing core of aif-rag-api:                   *)
(*   TextProcessor.split_text   (processors/text.py)                       *)
(*   DocumentService.process_document (document_service.py)                *)
(* Character offsets are 0-based as in the Python source; the character at *)
(* offset i of a sequence s is s[i + 1].                                   *)
(***************************************************************************)
EXTENDS Integers, Sequences, FiniteSets, TLC

\* ---------------------------------------------------------------- bounds
MaxLen == 5
MaxChunkSize == 3
MaxOverlap == 3
MaxMismatch == 1
MaxCleanLen == 4
MaxTexts == 4
MaxBatchSize == 3
MaxConcurrentLen == 3
MaxDicts == 2
MaxUuids == 1
MaxPolls == 1

Min(a, b) == IF a < b THEN a ELSE b
Max(a, b) == IF a > b THEN a ELSE b

\* ------------------------------------------------------------ characters
Space == " "
Newline == "\n"
Tab == "\t"
Letter == "a"

\* characters removed by str.strip() with no argument
Whitespace == {Space, Newline, Tab}

Chars == {Letter} \cup Whitespace

\* the absent text (Python None); distinct from every string over Chars
None == <<"None">>

RECURSIVE StringsOfLen(_)
StringsOfLen(n) ==
    IF n = 0 THEN {<<>>}
    ELSE {Append(s, c) : s \in StringsOfLen(n - 1), c \in Chars}

Strings == UNION {StringsOfLen(n) : n \in 0..MaxLen}

\* ------------------------------------------------------ string primitives
RECURSIVE lstrip(_)
lstrip(s) ==
    IF s = <<>> THEN s
    ELSE IF Head(s) \in Whitespace THEN lstrip(Tail(s)) ELSE s

RECURSIVE rstrip(_)
rstrip(s) ==
    IF s = <<>> THEN s
    ELSE IF s[Len(s)] \in Whitespace THEN rstrip(SubSeq(s, 1, Len(s) - 1)) ELSE s

\* str.strip()
strip(s) == rstrip(lstrip(s))

\* how Python resolves a slice bound i against a sequence of length n
SliceIndex(i, n) == IF i < 0 THEN Max(i + n, 0) ELSE Min(i, n)

\* s[lo:hi]
Slice(s, lo, hi) == SubSeq(s, SliceIndex(lo, Len(s)) + 1, SliceIndex(hi, Len(s)))

\* highest offset i in [lo, hi) with s[i] == c, else -1 (0 <= lo, hi <= len(s))
RECURSIVE rfindIn(_, _, _, _)
rfindIn(s, c, lo, hi) ==
    IF hi <= lo THEN -1
    ELSE IF s[hi] = c THEN hi - 1
    ELSE rfindIn(s, c, lo, hi - 1)

\* str.rfind(c, lo, hi)
rfind(s, c, lo, hi) ==
    rfindIn(s, c, SliceIndex(lo, Len(s)), SliceIndex(hi, Len(s)))

\* the offsets <<p, q>> of the maximal runs s[p:q] of non-whitespace characters
TokenSpans(s) ==
    {pq \in (0..Len(s)) \X (0..Len(s)) :
        /\ pq[1] < pq[2]
        /\ \A i \in (pq[1] + 1)..pq[2] : s[i] \notin Whitespace
        /\ pq[1] = 0 \/ s[pq[1]] \in Whitespace
        /\ pq[2] = Len(s) \/ s[pq[2] + 1] \in Whitespace}

\* set(s.split()): the whitespace-delimited tokens of s
Tokens(s) == {Slice(s, pq[1], pq[2]) : pq \in TokenSpans(s)}

\* ------------------------------------------------------------- exceptions
\* str(e) of an exception built from one message argument is that message
Exc(kind, message) == [kind |-> kind, message |-> message]

ChunkingError == Exc("ChunkingError", "Text cannot be None")

\* failures the injected embedding capability can raise
EmbeddingFailures ==
    { Exc("RateLimitError", "OpenAI rate limit exceeded"),
      Exc("ServiceUnavailableError", "OpenAI service is temporarily unavailable"),
      Exc("Exception", "Embedding generation failed") }

\* mutant: errors that already are DocumentProcessingError subclasses pass
\* through unwrapped
DocumentProcessingError_Passthrough(e) ==
    IF e.kind = "ChunkingError" THEN e
    ELSE [kind |-> "DocumentProcessingError",
          message |-> "Failed to process document: " \o e.message,
          original_error |-> e]

\* the except clause of process_document
DocumentProcessingError(e) ==
    [kind |-> "DocumentProcessingError",
     message |-> "Failed to process document: " \o e.message,
     original_error |-> e]

\* ------------------------------------------------------------------ state
VARIABLES
    chunk_size,     \* TextProcessor.chunk_size
    chunk_overlap,  \* TextProcessor.chunk_overlap
    pc,             \* position of the process_document call
    text,           \* argument of process_document / split_text
    trimmed,        \* split_text's local text after text.strip()
    start,          \* split_text's cursor
    end,            \* end of the window computed by the last loop iteration
    index,          \* split_text's next chunk index
    chunks,         \* split_text's chunk list
    iterations,     \* number of loop iterations executed so far
    embeddings,     \* what generate_embeddings returned
    error,          \* the exception raised inside the try block, if any
    outcome,        \* what process_document returned or raised
    result,         \* what the operation called directly returned or raised
    recleaned,      \* clean_text applied to a clean_text result
    texts,          \* argument of generate_embeddings
    batch_size,     \* argument of generate_embeddings
    attempt,        \* tenacity's attempt number of the generate_embeddings call
    batch_start,    \* generate_embeddings' loop variable i
    all_embeddings, \* generate_embeddings' accumulator
    calls,          \* the inputs of the provider calls issued so far
    failures,       \* the exceptions the provider calls raised so far
    cancelled,      \* the caller was cancelled during the embedding call
    thread_pc,      \* position of each concurrent process_document call
    thread_text,    \* the text each concurrent caller passed
    thread_outcome, \* what each concurrent caller got back
    locals,         \* the local variables of each concurrent call
    dicts,          \* the dict objects of the logging contexts, by identity
    next_dict,      \* how many dict objects clear_logging_context created
    binding,        \* the dict logging_context is set to in each thread
    cid,            \* the value correlation_id is set to in each thread
    uuids,          \* how many correlation IDs uuid4 generated
    seen_context,   \* what get_logging_context last returned in each thread
    seen_cid,       \* what get_correlation_id last returned in each thread
    indexes,        \* the names of the indexes the Pinecone backend holds
    index_name,     \* the index name a PineconeService call works on
    pinecone_attempt, \* tenacity's attempt number of the PineconeService call
    backend_calls,  \* the Pinecone client calls made so far and what they raised
    polls,          \* how often create_index found the new index not ready
    batches         \* the inputs process_document passed to the capability

vars == <<chunk_size, chunk_overlap, pc, text, trimmed, start, end, index,
          chunks, iterations, embeddings, error, outcome, result, recleaned,
          texts, batch_size, attempt, batch_start, all_embeddings, calls,
          failures, cancelled, thread_pc, thread_text, thread_outcome, locals,
          dicts, next_dict, binding, cid, uuids, seen_context, seen_cid,
          indexes, index_name, pinecone_attempt, backend_calls, polls, batches>>

\* the state of a generate_embeddings call
openaiCallVars ==
    <<texts, batch_size, attempt, batch_start, all_embeddings, calls, failures>>
openaiVars == <<openaiCallVars, cancelled>>

\* the state of a process_document call
documentVars == <<trimmed, start, end, index, chunks, iterations, embeddings,
                  error, outcome, batches>>

\* the state of a direct TextProcessor call
processorVars == <<result, recleaned>>

\* the state of the concurrent process_document calls
threadVars == <<thread_pc, thread_text, thread_outcome, locals>>

\* the context variables of app.logging.context and what the threads read
loggingVars == <<dicts, next_dict, binding, cid, uuids, seen_context, seen_cid>>

concurrentVars == <<threadVars, loggingVars>>

\* the state of a PineconeService call
pineconeVars == <<indexes, index_name, pinecone_attempt, backend_calls, polls>>

\* the dict object created once as the default of logging_context
DefaultDict == 0

\* a context variable that was never set in the thread's context
Unset == -1

\* the state of the calls made one at a time
sequentialVars ==
    <<pc, text, documentVars, processorVars, openaiVars, pineconeVars>>

\* the callers that share one DocumentService
Threads == {"t1", "t2"}

\* the local variables of split_text when a call starts
NoLocals ==
    [text |-> <<>>, trimmed |-> <<>>, start |-> 0, end |-> 0, index |-> 0,
     chunks |-> <<>>]

NoValue == <<>>

Init ==
    /\ chunk_size \in 1..MaxChunkSize
    /\ chunk_overlap \in 0..MaxOverlap
    /\ pc = "idle"
    /\ text = <<>>
    /\ trimmed = <<>>
    /\ start = 0
    /\ end = 0
    /\ index = 0
    /\ chunks = <<>>
    /\ iterations = 0
    /\ embeddings = <<>>
    /\ error = NoValue
    /\ outcome = NoValue
    /\ result = NoValue
    /\ recleaned = NoValue
    /\ texts = <<>>
    /\ batch_size = 0
    /\ attempt = 0
    /\ batch_start = 0
    /\ all_embeddings = <<>>
    /\ calls = <<>>
    /\ failures = <<>>
    /\ cancelled = FALSE
    /\ thread_pc = [t \in Threads |-> "idle"]
    /\ thread_text = [t \in Threads |-> <<>>]
    /\ thread_outcome = [t \in Threads |-> NoValue]
    /\ locals = [t \in Threads |-> NoLocals]
    /\ dicts = [d \in 0..MaxDicts |-> {}]
    /\ next_dict = 0
    /\ binding = [t \in Threads |-> Unset]
    /\ cid = [t \in Threads |-> NoValue]
    /\ uuids = 0
    /\ seen_context = [t \in Threads |-> {}]
    /\ seen_cid = [t \in Threads |-> NoValue]
    /\ indexes = {}
    /\ index_name = ""
    /\ pinecone_attempt = 0
    /\ backend_calls = <<>>
    /\ polls = 0
    /\ batches = <<>>

\* a caller invokes process_document(text)
Call ==
    /\ pc = "idle"
    /\ \E s \in Strings \cup {None} : text' = s
    /\ pc' = "split_text"
    /\ UNCHANGED <<chunk_size, chunk_overlap, trimmed, start, end, index,
                   chunks, iterations, embeddings, error, outcome>>
    /\ UNCHANGED <<batches, processorVars, openaiVars, pineconeVars, concurrentVars>>

Chunk(t, s, e, i) == [text |-> t, start |-> s, end |-> e, index |-> i]

\* mutant: single-chunk threshold off by one
FitsOneChunk_OffByOne(t) == Len(t) <= chunk_size + 1

\* if len(text) <= self.chunk_size
FitsOneChunk(t) == Len(t) <= chunk_size

\* split_text up to the loop: the None check, the strip and the two
\* single-chunk returns
SplitTextEntry ==
    /\ pc = "split_text"
    /\ IF text = None
       THEN /\ error' = ChunkingError
            /\ outcome' = DocumentProcessingError(ChunkingError)
            /\ pc' = "raised"
            /\ UNCHANGED <<trimmed, chunks>>
       ELSE /\ trimmed' = strip(text)
            /\ IF trimmed' = <<>>
               THEN /\ chunks' = <<Chunk(<<>>, 0, 0, 0)>>
                    /\ pc' = "generate_embeddings"
               ELSE IF FitsOneChunk(trimmed')
               THEN /\ chunks' = <<Chunk(trimmed', 0, Len(trimmed'), 0)>>
                    /\ pc' = "generate_embeddings"
               ELSE /\ chunks' = <<>>
                    /\ pc' = "loop"
            /\ UNCHANGED <<error, outcome>>
    /\ UNCHANGED <<chunk_size, chunk_overlap, text, start, end, index,
                   iterations, embeddings>>
    /\ UNCHANGED <<batches, processorVars, openaiVars, pineconeVars, concurrentVars>>

\* mutant: tentative end not capped at the text length
WindowEnd_NoCap(t, s) ==
    LET tentative == s + chunk_size
        last_space == rfind(t, Space, s, tentative)
        last_newline == rfind(t, Newline, s, tentative)
    IN  IF tentative < Len(t) /\ (last_space > -1 \/ last_newline > -1)
        THEN Max(last_space, last_newline) + 1
        ELSE tentative

\* mutant: window one character too wide
WindowEnd_TooWide(t, s) ==
    LET tentative == Min(s + chunk_size + 1, Len(t))
        last_space == rfind(t, Space, s, tentative)
        last_newline == rfind(t, Newline, s, tentative)
    IN  IF tentative < Len(t) /\ (last_space > -1 \/ last_newline > -1)
        THEN Max(last_space, last_newline) + 1
        ELSE tentative

\* mutant: a space is preferred to a later newline
WindowEnd_PreferSpace(t, s) ==
    LET tentative == Min(s + chunk_size, Len(t))
        last_space == rfind(t, Space, s, tentative)
        last_newline == rfind(t, Newline, s, tentative)
    IN  IF tentative < Len(t) /\ (last_space > -1 \/ last_newline > -1)
        THEN (IF last_space > -1 THEN last_space ELSE last_newline) + 1
        ELSE tentative

\* the end of the window that starts at s: tentative end, then the break search
WindowEnd(t, s) ==
    LET tentative == Min(s + chunk_size, Len(t))
        last_space == rfind(t, Space, s, tentative)
        last_newline == rfind(t, Newline, s, tentative)
    IN  IF tentative < Len(t) /\ (last_space > -1 \/ last_newline > -1)
        THEN Max(last_space, last_newline) + 1
        ELSE tentative

\* mutant: the window is not stripped
ChunkText_Untrimmed(t, s, e) == Slice(t, s, e)

\* mutant: the whitespace inside the window is removed from the chunk text
ChunkText_Joined(t, s, e) == SelectSeq(Slice(t, s, e), LAMBDA c : c \notin Whitespace)

\* the text of the window [s, e)
ChunkText(t, s, e) == strip(Slice(t, s, e))

\* mutant: windows whose text is a single character are skipped too
Emit_SkipShort(cs, chunk_text, s, e, i) ==
    IF Len(chunk_text) > 1 THEN Append(cs, Chunk(chunk_text, s, e, i)) ELSE cs

\* mutant: whitespace-only windows are appended too
Emit_NoSkip(cs, chunk_text, s, e, i) == Append(cs, Chunk(chunk_text, s, e, i))

\* if chunk_text: chunks.append({...})
Emit(cs, chunk_text, s, e, i) ==
    IF chunk_text # <<>> THEN Append(cs, Chunk(chunk_text, s, e, i)) ELSE cs

\* mutant: the index advances for skipped windows too
NextIndex_Always(chunk_text, i) == i + 1

\* if chunk_text: index += 1
NextIndex(chunk_text, i) == IF chunk_text # <<>> THEN i + 1 ELSE i

\* mutant: the overlap window is one character wider than configured
NextStart_WiderOverlap(s, e) == Max(s + 1, e - chunk_overlap - 1)

\* mutant: the next window starts one character after the previous end
NextStart_Gap(s, e) == Max(s + 1, e + 1)

\* mutant: no forced forward progress
NextStart_NoProgress(s, e) == e - chunk_overlap

\* the cursor of the next window
NextStart(s, e) == Max(s + 1, e - chunk_overlap)

\* one iteration of the while loop of split_text
SplitTextLoop ==
    /\ pc = "loop"
    /\ LET e == WindowEnd(trimmed, start)
           chunk_text == ChunkText(trimmed, start, e)
       IN  /\ end' = e
           /\ chunks' = Emit(chunks, chunk_text, start, e, index)
           /\ index' = NextIndex(chunk_text, index)
           /\ iterations' = iterations + 1
           /\ IF e = Len(trimmed)
              THEN /\ pc' = "generate_embeddings"
                   /\ start' = start
              ELSE /\ start' = NextStart(start, e)
                   /\ pc' = IF start' < Len(trimmed) THEN "loop"
                            ELSE "generate_embeddings"
    /\ UNCHANGED <<chunk_size, chunk_overlap, text, trimmed, embeddings,
                   error, outcome>>
    /\ UNCHANGED <<batches, processorVars, openaiVars, pineconeVars, concurrentVars>>

\* the vectors of one answer of the embedding capability: n of them, the
\* k-th one being the vector computed for the k-th text of the batch
Vector(k) == <<"vector", k>>
Vectors(n) == [k \in 1..n |-> Vector(k)]

\* mutant: the vectors are attached starting from the last one
Zip_Reversed(cs, es) ==
    [i \in 1..Len(cs) |->
        IF i <= Len(es)
        THEN [text |-> cs[i].text, start |-> cs[i].start, end |-> cs[i].end,
              index |-> cs[i].index, embedding |-> es[Len(es) + 1 - i]]
        ELSE cs[i]]

\* for chunk, embedding in zip(chunks, embeddings): chunk["embedding"] = embedding
Zip(cs, es) ==
    [i \in 1..Len(cs) |->
        IF i <= Len(es)
        THEN [text |-> cs[i].text, start |-> cs[i].start, end |-> cs[i].end,
              index |-> cs[i].index, embedding |-> es[i]]
        ELSE cs[i]]

\* how many vectors the capability may answer a batch of n texts with: n, or
\* up to MaxMismatch fewer or more
AnswerLengths(n) == {k \in 0..(n + MaxMismatch) : k >= n - MaxMismatch}

\* mutant: the chunk texts are batched last chunk first
Texts_Reversed(cs) == [i \in 1..Len(cs) |-> cs[Len(cs) + 1 - i].text]

\* texts = [chunk["text"] for chunk in chunks]
Texts(cs) == [i \in 1..Len(cs) |-> cs[i].text]

\* the embedding call answers with vectors: zip and return
EmbedReturns ==
    /\ pc = "generate_embeddings"
    /\ batches' = Append(batches, Texts(chunks))
    /\ \E n \in AnswerLengths(Len(chunks)) :
          /\ embeddings' = Vectors(n)
          /\ outcome' = Zip(chunks, embeddings')
    /\ pc' = "returned"
    /\ UNCHANGED <<chunk_size, chunk_overlap, text, trimmed, start, end, index,
                   chunks, iterations, error>>
    /\ UNCHANGED <<processorVars, openaiVars, pineconeVars, concurrentVars>>

\* the embedding call raises: the except clause wraps the failure
EmbedRaises ==
    /\ pc = "generate_embeddings"
    /\ batches' = Append(batches, Texts(chunks))
    /\ \E e \in EmbeddingFailures :
          /\ error' = e
          /\ outcome' = DocumentProcessingError(e)
    /\ pc' = "raised"
    /\ UNCHANGED <<chunk_size, chunk_overlap, text, trimmed, start, end, index,
                   chunks, iterations, embeddings>>
    /\ UNCHANGED <<processorVars, openaiVars, pineconeVars, concurrentVars>>

\* what calling the async generate_embeddings of OpenAIService returns to a
\* caller that does not await it: a coroutine object, not a list of vectors
Coroutine == <<<<"coroutine", "generate_embeddings">>>>

\* zip(chunks, embeddings) on a coroutine object
CoroutineNotIterable == Exc("TypeError", "'coroutine' object is not iterable")

\* the embedding capability is the OpenAIService itself: the call on line 56
\* is not awaited, so it returns a coroutine object at once, no provider call
\* is made, and zip raises TypeError inside the try block
EmbedReturnsCoroutine ==
    /\ pc = "generate_embeddings"
    /\ batches' = Append(batches, Texts(chunks))
    /\ embeddings' = Coroutine
    /\ error' = CoroutineNotIterable
    /\ outcome' = DocumentProcessingError(CoroutineNotIterable)
    /\ pc' = "raised"
    /\ UNCHANGED <<chunk_size, chunk_overlap, text, trimmed, start, end, index,
                   chunks, iterations>>
    /\ UNCHANGED <<processorVars, openaiVars, pineconeVars, concurrentVars>>

\* ------------------------------------------- TextProcessor, called directly
Return(v) == [returned |-> v]
Raise(e) == [raised |-> e]

\* a zero-width character (U+200B..U+200D, U+FEFF): matched by the second
\* clean pattern, neither matched by \\s nor removed by str.strip()
ZeroWidth == "U+200B"

CleanChars == Chars \cup {ZeroWidth}

RECURSIVE CleanStringsOfLen(_)
CleanStringsOfLen(n) ==
    IF n = 0 THEN {<<>>}
    ELSE {Append(s, c) : s \in CleanStringsOfLen(n - 1), c \in CleanChars}

CleanStrings == UNION {CleanStringsOfLen(n) : n \in 0..MaxCleanLen}

\* re.sub(r'\s+', ' ', s): every maximal run of whitespace becomes one space
RECURSIVE SubWhitespaceRuns(_)
SubWhitespaceRuns(s) ==
    IF s = <<>> THEN s
    ELSE IF Head(s) \in Whitespace
    THEN <<Space>> \o SubWhitespaceRuns(lstrip(s))
    ELSE <<Head(s)>> \o SubWhitespaceRuns(Tail(s))

\* re.sub(r'[\u200B-\u200D\uFEFF]', ' ', s): every zero-width character
\* becomes one space
SubZeroWidth(s) == [i \in 1..Len(s) |-> IF s[i] = ZeroWidth THEN Space ELSE s[i]]

TextProcessingError == Exc("TextProcessingError", "Text cannot be None")
MetadataExtractionError == Exc("MetadataExtractionError", "Text cannot be None")

\* mutant: the None check raises the error kind of split_text
clean_text_WrongKind(t) ==
    IF t = None THEN Raise(ChunkingError)
    ELSE Return(strip(SubZeroWidth(SubWhitespaceRuns(t))))

\* TextProcessor.clean_text with the default clean_patterns
clean_text(t) ==
    IF t = None THEN Raise(TextProcessingError)
    ELSE Return(strip(SubZeroWidth(SubWhitespaceRuns(t))))

\* mutant: str.splitlines() semantics, no empty line after a final newline
RECURSIVE Lines_SplitLines(_)
Lines_SplitLines(s) ==
    IF \A i \in 1..Len(s) : s[i] # Newline THEN (IF s = <<>> THEN <<>> ELSE <<s>>)
    ELSE LET n == CHOOSE i \in 1..Len(s) :
                      s[i] = Newline /\ \A j \in 1..(i - 1) : s[j] # Newline
         IN  <<SubSeq(s, 1, n - 1)>> \o Lines_SplitLines(SubSeq(s, n + 1, Len(s)))

\* text.split('\n')
RECURSIVE Lines(_)
Lines(s) ==
    IF \A i \in 1..Len(s) : s[i] # Newline THEN <<s>>
    ELSE LET n == CHOOSE i \in 1..Len(s) :
                      s[i] = Newline /\ \A j \in 1..(i - 1) : s[j] # Newline
         IN  <<SubSeq(s, 1, n - 1)>> \o Lines(SubSeq(s, n + 1, Len(s)))

\* TextProcessor.extract_metadata
extract_metadata(t) ==
    IF t = None THEN Raise(MetadataExtractionError)
    ELSE IF t = <<>>
    THEN Return([length |-> 0, word_count |-> 0, line_count |-> 1,
                 has_paragraphs |-> FALSE])
    ELSE LET lines == Lines(t) IN
         Return([length |-> Len(t),
                 word_count |-> Cardinality(TokenSpans(t)),
                 line_count |-> Len(lines),
                 has_paragraphs |->
                     Len(lines) > 1 /\ \E i \in 1..Len(lines) : strip(lines[i]) = <<>>])

\* a caller invokes clean_text(text)
CleanText ==
    /\ pc = "idle"
    /\ \E s \in CleanStrings \cup {None} :
          /\ text' = s
          /\ result' = clean_text(s)
    /\ pc' = "clean_text_done"
    /\ UNCHANGED <<chunk_size, chunk_overlap, documentVars, recleaned, openaiVars,
                   pineconeVars, concurrentVars>>

\* the caller passes the cleaned text to clean_text once more
CleanTextAgain ==
    /\ pc = "clean_text_done"
    /\ "returned" \in DOMAIN result
    /\ recleaned' = clean_text(result.returned)
    /\ pc' = "clean_text_again_done"
    /\ UNCHANGED <<chunk_size, chunk_overlap, text, documentVars, result,
                   openaiVars, pineconeVars, concurrentVars>>

\* a caller invokes extract_metadata(text)
ExtractMetadata ==
    /\ pc = "idle"
    /\ \E s \in Strings \cup {None} :
          /\ text' = s
          /\ result' = extract_metadata(s)
    /\ pc' = "extract_metadata_done"
    /\ UNCHANGED <<chunk_size, chunk_overlap, documentVars, recleaned, openaiVars,
                   pineconeVars, concurrentVars>>

\* --------------------------------------------- OpenAIService, called directly
\* stop_after_attempt(3)
StopAfterAttempt == 3

\* asyncio.CancelledError: a BaseException, not an Exception
CancelledError == Exc("CancelledError", "")

\* mutant: a bare except, which also catches BaseException
ExceptException_Bare(e) == TRUE

\* does `except Exception` catch e
ExceptException(e) == e.kind # "CancelledError"

ServiceUnavailableMessage == "service_unavailable: The server is temporarily unavailable"

\* what self.client.embeddings.create can raise
ProviderFailures ==
    { Exc("openai.RateLimitError", "Rate limit exceeded"),
      Exc("openai.AuthenticationError", "Invalid API key"),
      Exc("openai.APIError", ServiceUnavailableMessage),
      Exc("openai.APIError", "Bad request"),
      Exc("ValueError", "Unexpected error") }

\* "service_unavailable" in str(e).lower()
MentionsServiceUnavailable(e) == e.message = ServiceUnavailableMessage

\* mutant: rate limiting is reported as a transient unavailability
AttemptError_RateLimitUnavailable(e) ==
    IF e.kind = "openai.RateLimitError"
    THEN Exc("ServiceUnavailableError", "OpenAI service is temporarily unavailable")
    ELSE IF e.kind = "openai.AuthenticationError"
    THEN Exc("AuthenticationError", "Invalid OpenAI API key")
    ELSE IF e.kind = "openai.APIError"
    THEN IF MentionsServiceUnavailable(e)
         THEN Exc("ServiceUnavailableError", "OpenAI service is temporarily unavailable")
         ELSE Exc("EmbeddingError", "Error generating embeddings: " \o e.message)
    ELSE IF ExceptException(e)
    THEN Exc("EmbeddingError", "Unexpected error generating embeddings: " \o e.message)
    ELSE e

\* the exception that leaves one attempt when the provider call raises e:
\* the inner except clauses, then the outer `except Exception`
AttemptError(e) ==
    IF e.kind = "openai.RateLimitError"
    THEN Exc("RateLimitError", "OpenAI rate limit exceeded")
    ELSE IF e.kind = "openai.AuthenticationError"
    THEN Exc("AuthenticationError", "Invalid OpenAI API key")
    ELSE IF e.kind = "openai.APIError"
    THEN IF MentionsServiceUnavailable(e)
         THEN Exc("ServiceUnavailableError", "OpenAI service is temporarily unavailable")
         ELSE Exc("EmbeddingError", "Error generating embeddings: " \o e.message)
    ELSE IF ExceptException(e)
    THEN Exc("EmbeddingError", "Unexpected error generating embeddings: " \o e.message)
    ELSE e

\* retry_if_exception_type(ServiceUnavailableError)
ShouldRetry(e) == e.kind = "ServiceUnavailableError"

\* mutant: one attempt too many
ShouldStop_OffByOne(n) == n >= StopAfterAttempt + 1

\* stop_after_attempt(3), asked after attempt n failed
ShouldStop(n) == n >= StopAfterAttempt

\* tenacity.RetryError, raised when the attempts are used up
RetryError(e) == [kind |-> "RetryError", message |-> "RetryError", last_attempt |-> e]

\* mutant: every batch starts one text too early
Batch_Overlapping(ts, i, b) == Slice(ts, Max(i - 1, 0), i + b)

\* texts[i:i + batch_size]
Batch(ts, i, b) == Slice(ts, i, i + b)

\* the provider's answer to a batch: one vector per input, in order
Response(batch) == [k \in 1..Len(batch) |-> Vector(batch[k])]

\* mutant: a retried attempt keeps the vectors of the failed attempt
BeginAttempt_KeepAccumulator(ts, b, n) ==
    /\ attempt' = n
    /\ IF ts = <<>>
       THEN /\ result' = Raise(Exc("ValueError", "Input texts cannot be empty"))
            /\ pc' = "openai_raised"
            /\ UNCHANGED <<all_embeddings, batch_start, calls>>
       ELSE /\ all_embeddings' = all_embeddings
            /\ batch_start' = 0
            /\ calls' = Append(calls, Batch(ts, 0, b))
            /\ pc' = "openai_await"
            /\ UNCHANGED result

\* the start of an attempt, up to its first await
BeginAttempt(ts, b, n) ==
    /\ attempt' = n
    /\ IF ts = <<>>
       THEN /\ result' = Raise(Exc("ValueError", "Input texts cannot be empty"))
            /\ pc' = "openai_raised"
            /\ UNCHANGED <<all_embeddings, batch_start, calls>>
       ELSE /\ all_embeddings' = <<>>
            /\ batch_start' = 0
            /\ calls' = Append(calls, Batch(ts, 0, b))
            /\ pc' = "openai_await"
            /\ UNCHANGED result

\* a caller awaits generate_embeddings(texts, batch_size)
GenerateEmbeddings ==
    /\ pc = "idle"
    /\ \E n \in 0..MaxTexts, b \in 1..MaxBatchSize :
          /\ texts' = [k \in 1..n |-> k]
          /\ batch_size' = b
          /\ BeginAttempt(texts', b, 1)
    /\ UNCHANGED <<pineconeVars, concurrentVars, chunk_size, chunk_overlap, text, documentVars, recleaned,
                   failures, cancelled>>

\* the provider answers the call in flight; the loop goes on to the next
\* batch or returns
ProviderReturns ==
    /\ pc = "openai_await"
    /\ LET batch == calls[Len(calls)]
           extended == all_embeddings \o Response(batch)
           i == batch_start + batch_size
       IN  /\ all_embeddings' = extended
           /\ IF i < Len(texts)
              THEN /\ batch_start' = i
                   /\ calls' = Append(calls, Batch(texts, i, batch_size))
                   /\ pc' = "openai_await"
                   /\ UNCHANGED result
              ELSE /\ result' = Return(extended)
                   /\ pc' = "openai_returned"
                   /\ UNCHANGED <<batch_start, calls>>
    /\ UNCHANGED <<pineconeVars, concurrentVars, chunk_size, chunk_overlap, text, documentVars, recleaned,
                   texts, batch_size, attempt, failures, cancelled>>

\* the attempt ends with exception e: tenacity retries, gives up or re-raises
EndAttempt(e) ==
    IF ShouldRetry(e)
    THEN IF ShouldStop(attempt)
         THEN result' = Raise(RetryError(e)) /\ pc' = "openai_raised"
         ELSE result' = result /\ pc' = "openai_backoff"
    ELSE /\ result' = Raise(e)
         /\ pc' = IF e = CancelledError THEN "openai_cancelled" ELSE "openai_raised"

\* the provider call in flight raises
ProviderFails ==
    /\ pc = "openai_await"
    /\ \E e \in ProviderFailures :
          /\ failures' = Append(failures, e)
          /\ EndAttempt(AttemptError(e))
    /\ UNCHANGED <<pineconeVars, concurrentVars, chunk_size, chunk_overlap, text, documentVars, recleaned,
                   texts, batch_size, attempt, batch_start, all_embeddings,
                   calls, cancelled>>

\* tenacity's wait is over: the next attempt runs the function again
RetryAttempt ==
    /\ pc = "openai_backoff"
    /\ BeginAttempt(texts, batch_size, attempt + 1)
    /\ UNCHANGED <<pineconeVars, concurrentVars, chunk_size, chunk_overlap, text, documentVars, recleaned,
                   texts, batch_size, failures, cancelled>>

\* the awaiting caller is cancelled while a provider call is in flight:
\* CancelledError is raised at the await
CancelInFlight ==
    /\ pc = "openai_await"
    /\ cancelled' = TRUE
    /\ EndAttempt(AttemptError(CancelledError))
    /\ UNCHANGED <<pineconeVars, concurrentVars, chunk_size, chunk_overlap, text, documentVars, recleaned,
                   openaiCallVars>>

\* the embedding call of process_document is cancelled: the try block raises
\* CancelledError, which `except Exception` does not catch
EmbedCancelled ==
    /\ pc = "generate_embeddings"
    /\ batches' = Append(batches, Texts(chunks))
    /\ cancelled' = TRUE
    /\ IF ExceptException(CancelledError)
       THEN /\ error' = CancelledError
            /\ outcome' = DocumentProcessingError(CancelledError)
            /\ pc' = "raised"
       ELSE /\ outcome' = CancelledError
            /\ pc' = "cancelled"
            /\ UNCHANGED error
    /\ UNCHANGED <<chunk_size, chunk_overlap, text, trimmed, start, end, index,
                   chunks, iterations, embeddings, processorVars, openaiCallVars,
                   pineconeVars, concurrentVars>>

\* ------------------------------------------------------- PineconeService
\* stop_after_attempt(5) of create_index
CreateIndexStopAfterAttempt == 5

\* stop_after_attempt(3) of describe_index
DescribeIndexStopAfterAttempt == 3

IndexNames == {"test-index"}

\* the index name is absent (None) or empty: falsy either way
NoName == ""

\* the messages of the exceptions the Pinecone client can raise
BackendMessages ==
    { "index already exists", "rate limit exceeded", "request timeout",
      "Index not found", "Service unavailable" }

IndexNameRequired == "Index name must be provided either in config or as parameter"

DoesNotExist(name) == "Index " \o name \o " does not exist"

\* phrase in str(e).lower()
Mentions(message, phrase) ==
    <<message, phrase>> \in
        { <<"index already exists", "already exists">>,
          <<"rate limit exceeded", "rate limit">>,
          <<"request timeout", "timeout">>,
          <<"Index not found", "not found">> }

\* a Pinecone client call and the message of the exception it raised, if any
BackendCall(call, raised) == [call |-> call, raised |-> raised]

\* the except clause of create_index takes the exception as "the index
\* already exists" and returns
CreateIndexSwallows(message) == Mentions(message, "already exists")

\* the except clause of create_index otherwise: the exception raised instead
CreateIndexError(message) ==
    IF Mentions(message, "rate limit")
    THEN Exc("RateLimitError", "Rate limit exceeded while creating index: " \o message)
    ELSE IF Mentions(message, "timeout")
    THEN Exc("ServiceTimeoutError", "Service timeout while creating index: " \o message)
    ELSE Exc("IndexCreationError", "Failed to create index: " \o message)

\* retry_if_exception_type((RateLimitError, ServiceTimeoutError))
CreateIndexShouldRetry(e) == e.kind \in {"RateLimitError", "ServiceTimeoutError"}

\* an attempt of create_index ends in the except clause with this message
CreateIndexFails(message, n) ==
    LET e == CreateIndexError(message) IN
    IF CreateIndexSwallows(message)
    THEN result' = Return(None) /\ pc' = "create_index_returned"
    ELSE IF ~ CreateIndexShouldRetry(e)
    THEN result' = Raise(e) /\ pc' = "create_index_raised"
    ELSE IF n >= CreateIndexStopAfterAttempt
    THEN result' = Raise(RetryError(e)) /\ pc' = "create_index_raised"
    ELSE result' = result /\ pc' = "create_index_backoff"

\* attempt n of create_index on index name while the backend holds the
\* indexes held, up to the wait for readiness
CreateIndexAttempt(name, held, n) ==
    /\ pinecone_attempt' = n
    /\ polls' = 0
    /\ IF name = NoName
       THEN /\ CreateIndexFails(IndexNameRequired, n)
            /\ indexes' = held
            /\ UNCHANGED backend_calls
       ELSE \/ \E m \in BackendMessages :
                /\ backend_calls' = Append(backend_calls, BackendCall("list_indexes", m))
                /\ CreateIndexFails(m, n)
                /\ indexes' = held
            \/ /\ name \in held
               /\ backend_calls' = Append(backend_calls, BackendCall("list_indexes", ""))
               /\ result' = Return(None)
               /\ pc' = "create_index_returned"
               /\ indexes' = held
            \/ /\ name \notin held
               /\ \E m \in BackendMessages :
                     /\ backend_calls' =
                           backend_calls \o <<BackendCall("list_indexes", ""),
                                              BackendCall("create_index", m)>>
                     /\ CreateIndexFails(m, n)
                     /\ indexes' = held
            \/ /\ name \notin held
               /\ backend_calls' =
                     backend_calls \o <<BackendCall("list_indexes", ""),
                                        BackendCall("create_index", "")>>
               /\ indexes' = held \cup {name}
               /\ pc' = "create_index_wait"
               /\ UNCHANGED result

\* a caller invokes create_index(name) on a service configured with an index
\* name or none, while the backend holds any set of indexes
CreateIndex ==
    /\ pc = "idle"
    /\ \E name \in IndexNames \cup {NoName}, configured \in IndexNames \cup {NoName},
          held \in SUBSET IndexNames :
          /\ index_name' = IF name # NoName THEN name ELSE configured
          /\ CreateIndexAttempt(index_name', held, 1)
    /\ UNCHANGED <<chunk_size, chunk_overlap, text, documentVars, recleaned,
                   openaiVars, concurrentVars>>

\* tenacity's wait is over: create_index runs again
CreateIndexRetry ==
    /\ pc = "create_index_backoff"
    /\ CreateIndexAttempt(index_name, indexes, pinecone_attempt + 1)
    /\ UNCHANGED <<chunk_size, chunk_overlap, text, documentVars, recleaned,
                   openaiVars, concurrentVars, index_name>>

\* while not self._is_index_ready(index_name): the backend reports the index
\* ready, or not ready, or the status call raises (taken as not ready)
PollIndexReady ==
    /\ pc = "create_index_wait"
    /\ \/ /\ backend_calls' = Append(backend_calls, BackendCall("describe_index", ""))
          /\ result' = Return(None)
          /\ pc' = "create_index_returned"
          /\ UNCHANGED polls
       \/ /\ polls < MaxPolls
          /\ \E m \in {"", "Service unavailable"} :
                backend_calls' = Append(backend_calls, BackendCall("describe_index", m))
          /\ polls' = polls + 1
          /\ UNCHANGED <<result, pc>>
    /\ UNCHANGED <<chunk_size, chunk_overlap, text, documentVars, recleaned,
                   openaiVars, concurrentVars, indexes, index_name,
                   pinecone_attempt>>

\* the except clause of describe_index
DescribeIndexError(name, message) ==
    IF Mentions(message, "not found")
    THEN Exc("IndexNotFoundError", DoesNotExist(name))
    ELSE Exc("ServiceUnavailableError", "Failed to describe index: " \o message)

\* an attempt of describe_index ends in the except clause with this message:
\* every exception is retried, the last one is re-raised
DescribeIndexFails(name, message, n) ==
    IF n >= DescribeIndexStopAfterAttempt
    THEN result' = Raise(DescribeIndexError(name, message)) /\ pc' = "describe_index_raised"
    ELSE result' = result /\ pc' = "describe_index_backoff"

\* attempt n of describe_index(name) while the backend holds the indexes held
DescribeIndexAttempt(name, held, n) ==
    /\ pinecone_attempt' = n
    /\ indexes' = held
    /\ \/ \E m \in BackendMessages :
             /\ backend_calls' = Append(backend_calls, BackendCall("list_indexes", m))
             /\ DescribeIndexFails(name, m, n)
       \/ /\ name \notin held
          /\ backend_calls' = Append(backend_calls, BackendCall("list_indexes", ""))
          /\ DescribeIndexFails(name, DoesNotExist(name), n)
       \/ /\ name \in held
          /\ \E m \in BackendMessages :
                /\ backend_calls' =
                      backend_calls \o <<BackendCall("list_indexes", ""),
                                         BackendCall("describe_index", m)>>
                /\ DescribeIndexFails(name, m, n)
       \/ /\ name \in held
          /\ backend_calls' =
                backend_calls \o <<BackendCall("list_indexes", ""),
                                   BackendCall("describe_index", "")>>
          /\ result' = Return([name |-> name])
          /\ pc' = "describe_index_returned"

\* a caller invokes describe_index(name) while the backend holds any set of
\* indexes
DescribeIndex ==
    /\ pc = "idle"
    /\ \E name \in IndexNames, held \in SUBSET IndexNames :
          /\ index_name' = name
          /\ DescribeIndexAttempt(name, held, 1)
    /\ UNCHANGED <<chunk_size, chunk_overlap, text, documentVars, recleaned,
                   openaiVars, concurrentVars, polls>>

\* tenacity's wait is over: describe_index runs again
DescribeIndexRetry ==
    /\ pc = "describe_index_backoff"
    /\ DescribeIndexAttempt(index_name, indexes, pinecone_attempt + 1)
    /\ UNCHANGED <<chunk_size, chunk_overlap, text, documentVars, recleaned,
                   openaiVars, concurrentVars, index_name, polls>>

Next ==
    \/ Call
    \/ SplitTextEntry
    \/ SplitTextLoop
    \/ EmbedReturns
    \/ EmbedRaises
    \/ CleanText
    \/ CleanTextAgain
    \/ ExtractMetadata
    \/ EmbedCancelled
    \/ EmbedReturnsCoroutine
    \/ GenerateEmbeddings
    \/ ProviderReturns
    \/ ProviderFails
    \/ RetryAttempt
    \/ CancelInFlight
    \/ CreateIndex
    \/ CreateIndexRetry
    \/ PollIndexReady
    \/ DescribeIndex
    \/ DescribeIndexRetry

Spec == Init /\ [][Next]_vars


\* ------------------------------- concurrent calls on one DocumentService
RECURSIVE ConcurrentStringsOfLen(_)
ConcurrentStringsOfLen(n) ==
    IF n = 0 THEN {<<>>}
    ELSE {Append(s, c) : s \in ConcurrentStringsOfLen(n - 1), c \in {Letter, Space}}

\* the texts the concurrent callers pass
ConcurrentTexts ==
    UNION {ConcurrentStringsOfLen(n) : n \in 0..MaxConcurrentLen} \cup {None}

\* mutant: the locals are kept in one place shared by all calls
Frame_Shared(t) == "t1"

\* where the locals of the call of thread t live: in the call's own frame
Frame(t) == t

\* thread t calls process_document(text)
ThreadCall(t) ==
    /\ thread_pc[t] = "idle"
    /\ \E s \in ConcurrentTexts :
          /\ thread_text' = [thread_text EXCEPT ![t] = s]
          /\ locals' = [locals EXCEPT ![Frame(t)].text = s]
    /\ thread_pc' = [thread_pc EXCEPT ![t] = "split_text"]
    /\ UNCHANGED <<chunk_size, chunk_overlap, thread_outcome, sequentialVars, loggingVars>>

\* split_text of thread t up to the loop
ThreadSplitTextEntry(t) ==
    /\ thread_pc[t] = "split_text"
    /\ LET l == locals[Frame(t)] IN
       IF l.text = None
       THEN /\ thread_outcome' =
                 [thread_outcome EXCEPT ![t] = DocumentProcessingError(ChunkingError)]
            /\ thread_pc' = [thread_pc EXCEPT ![t] = "raised"]
            /\ UNCHANGED locals
       ELSE LET s == strip(l.text) IN
            /\ locals' =
                 [locals EXCEPT ![Frame(t)] =
                    [l EXCEPT !.trimmed = s, !.start = 0, !.index = 0,
                              !.chunks = IF s = <<>> THEN <<Chunk(<<>>, 0, 0, 0)>>
                                         ELSE IF FitsOneChunk(s)
                                         THEN <<Chunk(s, 0, Len(s), 0)>>
                                         ELSE <<>>]]
            /\ thread_pc' =
                 [thread_pc EXCEPT ![t] =
                    IF s = <<>> \/ FitsOneChunk(s) THEN "generate_embeddings"
                    ELSE "loop"]
            /\ UNCHANGED thread_outcome
    /\ UNCHANGED <<chunk_size, chunk_overlap, thread_text, sequentialVars, loggingVars>>

\* one iteration of the while loop of split_text in thread t
ThreadSplitTextLoop(t) ==
    /\ thread_pc[t] = "loop"
    /\ LET l == locals[Frame(t)]
           e == WindowEnd(l.trimmed, l.start)
           chunk_text == ChunkText(l.trimmed, l.start, e)
           s == IF e = Len(l.trimmed) THEN l.start ELSE NextStart(l.start, e)
       IN  /\ locals' =
                [locals EXCEPT ![Frame(t)] =
                   [l EXCEPT !.end = e,
                             !.chunks = Emit(l.chunks, chunk_text, l.start, e, l.index),
                             !.index = NextIndex(chunk_text, l.index),
                             !.start = s]]
           /\ thread_pc' =
                [thread_pc EXCEPT ![t] =
                   IF e # Len(l.trimmed) /\ s < Len(l.trimmed) THEN "loop"
                   ELSE "generate_embeddings"]
    /\ UNCHANGED <<chunk_size, chunk_overlap, thread_text, thread_outcome,
                   sequentialVars, loggingVars>>

\* the embedding call of thread t answers one vector per chunk: zip and return
ThreadEmbedReturns(t) ==
    /\ thread_pc[t] = "generate_embeddings"
    /\ LET cs == locals[Frame(t)].chunks IN
       thread_outcome' = [thread_outcome EXCEPT ![t] = Zip(cs, Vectors(Len(cs)))]
    /\ thread_pc' = [thread_pc EXCEPT ![t] = "returned"]
    /\ UNCHANGED <<chunk_size, chunk_overlap, thread_text, locals, sequentialVars, loggingVars>>

\* the embedding call of thread t raises: the except clause wraps the failure
ThreadEmbedRaises(t) ==
    /\ thread_pc[t] = "generate_embeddings"
    /\ \E e \in EmbeddingFailures :
          thread_outcome' = [thread_outcome EXCEPT ![t] = DocumentProcessingError(e)]
    /\ thread_pc' = [thread_pc EXCEPT ![t] = "raised"]
    /\ UNCHANGED <<chunk_size, chunk_overlap, thread_text, locals, sequentialVars, loggingVars>>

ConcurrentNext ==
    \E t \in Threads :
        \/ ThreadCall(t)
        \/ ThreadSplitTextEntry(t)
        \/ ThreadSplitTextLoop(t)
        \/ ThreadEmbedReturns(t)
        \/ ThreadEmbedRaises(t)

ConcurrentSpec == Init /\ [][ConcurrentNext]_vars

\* split_text run alone, as a function of its input
RECURSIVE SplitTextLoopFrom(_, _, _, _)
SplitTextLoopFrom(t, s, i, cs) ==
    LET e == WindowEnd(t, s)
        chunk_text == ChunkText(t, s, e)
        appended == Emit(cs, chunk_text, s, e, i)
    IN  IF e = Len(t) THEN appended
        ELSE IF NextStart(s, e) < Len(t)
        THEN SplitTextLoopFrom(t, NextStart(s, e), NextIndex(chunk_text, i), appended)
        ELSE appended

split_text(t) ==
    IF t = None THEN Raise(ChunkingError)
    ELSE LET s == strip(t) IN
         Return(IF s = <<>> THEN <<Chunk(<<>>, 0, 0, 0)>>
                ELSE IF FitsOneChunk(s) THEN <<Chunk(s, 0, Len(s), 0)>>
                ELSE SplitTextLoopFrom(s, 0, 0, <<>>))


\* ------------------------------------------------ app.logging.context
\* the key thread t passes to set_logging_context
Key(t) == <<"key", t>>

\* logging_context.get() in thread t: the dict set in the thread's context,
\* or the default object
ContextDict(t) == IF binding[t] = Unset THEN DefaultDict ELSE binding[t]

\* thread t calls set_logging_context(key=...): get, update in place, set
SetLoggingContext(t) ==
    /\ dicts' = [dicts EXCEPT ![ContextDict(t)] = @ \cup {Key(t)}]
    /\ binding' = [binding EXCEPT ![t] = ContextDict(t)]
    /\ UNCHANGED <<next_dict, cid, uuids, seen_context, seen_cid>>
    /\ UNCHANGED <<chunk_size, chunk_overlap, sequentialVars, threadVars>>

\* thread t calls clear_logging_context(): a new empty dict is set
ClearLoggingContext(t) ==
    /\ next_dict < MaxDicts
    /\ next_dict' = next_dict + 1
    /\ dicts' = [dicts EXCEPT ![next_dict'] = {}]
    /\ binding' = [binding EXCEPT ![t] = next_dict']
    /\ UNCHANGED <<cid, uuids, seen_context, seen_cid>>
    /\ UNCHANGED <<chunk_size, chunk_overlap, sequentialVars, threadVars>>

\* thread t calls get_logging_context()
GetLoggingContext(t) ==
    /\ seen_context' = [seen_context EXCEPT ![t] = dicts[ContextDict(t)]]
    /\ UNCHANGED <<dicts, next_dict, binding, cid, uuids, seen_cid>>
    /\ UNCHANGED <<chunk_size, chunk_overlap, sequentialVars, threadVars>>

\* thread t calls set_correlation_id(cid), with its own ID or with None
SetCorrelationId(t) ==
    /\ \/ /\ cid' = [cid EXCEPT ![t] = <<"cid", t>>]
          /\ UNCHANGED uuids
       \/ /\ uuids < MaxUuids
          /\ uuids' = uuids + 1
          /\ cid' = [cid EXCEPT ![t] = <<"uuid4", uuids'>>]
    /\ UNCHANGED <<dicts, next_dict, binding, seen_context, seen_cid>>
    /\ UNCHANGED <<chunk_size, chunk_overlap, sequentialVars, threadVars>>

\* thread t calls get_correlation_id(): an unset ID is generated and set
GetCorrelationId(t) ==
    /\ IF cid[t] = NoValue
       THEN /\ uuids < MaxUuids
            /\ uuids' = uuids + 1
            /\ cid' = [cid EXCEPT ![t] = <<"uuid4", uuids'>>]
       ELSE UNCHANGED <<cid, uuids>>
    /\ seen_cid' = [seen_cid EXCEPT ![t] = cid'[t]]
    /\ UNCHANGED <<dicts, next_dict, binding, seen_context>>
    /\ UNCHANGED <<chunk_size, chunk_overlap, sequentialVars, threadVars>>

LoggingNext ==
    \E t \in Threads :
        \/ SetLoggingContext(t)
        \/ ClearLoggingContext(t)
        \/ GetLoggingContext(t)
        \/ SetCorrelationId(t)
        \/ GetCorrelationId(t)

LoggingSpec == Init /\ [][LoggingNext]_vars

\* ------------------------------------------------------------- properties
\* split_text has returned its chunk list to process_document
SplitReturned ==
    \/ pc = "generate_embeddings"
    \/ pc = "returned"
    \/ pc = "raised" /\ text # None

\* chunk_size > 0 and 0 <= chunk_overlap < chunk_size
ValidParameters ==
    chunk_size > 0 /\ 0 <= chunk_overlap /\ chunk_overlap < chunk_size

AllWhitespace(s) == \A i \in 1..Len(s) : s[i] \in Whitespace

SetMax(S) == CHOOSE m \in S : \A x \in S : x <= m

\* C1: whenever split_text or the embedding capability raises, process_document
\* raises a DocumentProcessingError whose message is "Failed to process
\* document: " followed by the original message and whose original_error is
\* the original exception, and it returns no chunk list.
C1_FailureWrapped ==
    error # NoValue =>
        /\ pc = "raised"
        /\ outcome = [kind |-> "DocumentProcessingError",
                      message |-> "Failed to process document: " \o error.message,
                      original_error |-> error]

C1_Witness ==
    /\ pc = "raised"
    /\ error = Exc("ChunkingError", "Text cannot be None")
    /\ outcome.kind = "DocumentProcessingError"

\* C2: a chunk list returned by process_document has an embedding on every
\* chunk, whatever number of vectors the embedding capability returned.
C2_NoPartialAttachment ==
    pc = "returned" =>
        \A i \in 1..Len(outcome) : "embedding" \in DOMAIN outcome[i]

\* C3: when the capability returns one vector per chunk text, process_document
\* returns the chunks of split_text in the same order, vector i attached to
\* chunk i, with text, start, end and index as split_text produced them.
C3_ZipInOrder ==
    pc = "returned" /\ Len(embeddings) = Len(chunks) =>
        /\ Len(outcome) = Len(chunks)
        /\ \A i \in 1..Len(chunks) :
              /\ outcome[i].embedding = embeddings[i]
              /\ outcome[i].text = chunks[i].text
              /\ outcome[i].start = chunks[i].start
              /\ outcome[i].end = chunks[i].end
              /\ outcome[i].index = chunks[i].index

C3_Witness ==
    /\ pc = "returned"
    /\ Len(chunks) >= 3
    /\ Len(embeddings) = Len(chunks)
    /\ outcome[3].embedding = Vector(3)

\* C4: for valid parameters the chunks returned by split_text carry the index
\* values 0, 1, ..., N-1 in list order, also when windows were skipped.
C4_IndexGapFree ==
    SplitReturned /\ ValidParameters =>
        \A i \in 1..Len(chunks) : chunks[i].index = i - 1

C4_Witness ==
    /\ SplitReturned
    /\ ValidParameters
    /\ Len(chunks) >= 2
    /\ iterations > Len(chunks)

\* C5: for valid parameters every chunk returned by split_text satisfies
\* 0 <= start <= end <= len(text stripped of surrounding whitespace).
C5_OffsetsInRange ==
    SplitReturned /\ ValidParameters =>
        \A i \in 1..Len(chunks) :
            /\ 0 <= chunks[i].start
            /\ chunks[i].start <= chunks[i].end
            /\ chunks[i].end <= Len(strip(text))

C5_Witness ==
    /\ SplitReturned
    /\ ValidParameters
    /\ text # strip(text)
    /\ \E i \in 1..Len(chunks) :
          chunks[i].start > 0 /\ chunks[i].end = Len(strip(text))

\* C6: every chunk returned by split_text has a text of at most chunk_size
\* characters, whether the cut was at a space/newline or a hard cut.
C6_ChunkTextBounded ==
    SplitReturned =>
        \A i \in 1..Len(chunks) : Len(chunks[i].text) <= chunk_size

C6_Witness ==
    /\ SplitReturned
    /\ chunk_size >= 2
    /\ \E i, j \in 1..Len(chunks) :
          /\ Len(chunks[i].text) = chunk_size
          /\ chunks[j].end < Len(trimmed)
          /\ chunks[j].end - chunks[j].start < chunk_size

\* C7: split_text returns exactly one chunk iff the trimmed text is at most
\* chunk_size long; that chunk is {trimmed text, 0, len(trimmed text), 0};
\* a longer trimmed text yields more than one chunk.
C7_SingleChunkIffFits ==
    SplitReturned =>
        LET t == strip(text) IN
        /\ Len(chunks) = 1 <=> Len(t) <= chunk_size
        /\ Len(t) <= chunk_size =>
              chunks = <<[text |-> t, start |-> 0, end |-> Len(t), index |-> 0]>>
        /\ Len(t) > chunk_size => Len(chunks) > 1

C7_Witness ==
    /\ SplitReturned
    /\ text # strip(text)
    /\ Len(strip(text)) = chunk_size + 1
    /\ Len(chunks) > 1

\* C8: for the empty string and for whitespace-only text split_text returns
\* exactly one chunk with text "", start 0, end 0, index 0, and in no other
\* case does a returned chunk have empty text.
C8_EmptyChunkOnlyForBlankText ==
    SplitReturned =>
        /\ AllWhitespace(text) =>
              chunks = <<[text |-> <<>>, start |-> 0, end |-> 0, index |-> 0]>>
        /\ \A i \in 1..Len(chunks) :
              chunks[i].text = <<>> => AllWhitespace(text)

C8_Witness ==
    /\ SplitReturned
    /\ Len(text) >= 2
    /\ AllWhitespace(text)
    /\ Len(chunks) = 1
    /\ chunks[1].text = <<>>

\* C9: a window whose tentative end min(start + chunk_size, length) is below
\* length ends one past the last space or newline of [start, tentative end),
\* the larger offset winning, and at start + chunk_size if there is none; a
\* window whose tentative end equals length ends there.
C9_BreakAtLastSpaceOrNewline ==
    [][pc = "loop" =>
        LET length == Len(trimmed)
            tentative == IF start + chunk_size < length
                         THEN start + chunk_size ELSE length
            breaks == {i \in start..(tentative - 1) :
                          trimmed[i + 1] = Space \/ trimmed[i + 1] = Newline}
        IN  IF tentative = length THEN end' = length
            ELSE IF breaks # {} THEN end' = SetMax(breaks) + 1
            ELSE end' = start + chunk_size]_vars

C9_Witness ==
    /\ pc = "loop"
    /\ iterations = 1
    /\ chunk_size = 3
    /\ end = 3
    /\ trimmed[2] = Space
    /\ trimmed[3] = Newline

\* C10: split_text terminates: every iteration that does not reach
\* end == length moves the cursor to max(start + 1, end - chunk_overlap),
\* strictly beyond the previous start; the loop runs at most
\* len(trimmed text) iterations and is left with end == length.
C10_Terminates ==
    /\ [](iterations <= Len(trimmed))
    /\ [][pc = "loop" =>
            /\ iterations' = iterations + 1
            /\ IF end' = Len(trimmed)
               THEN pc' = "generate_embeddings"
               ELSE /\ pc' = "loop"
                    /\ start' > start
                    /\ start' >= start + 1
                    /\ start' >= end' - chunk_overlap
                    /\ start' = start + 1 \/ start' = end' - chunk_overlap]_vars

C10_Witness ==
    /\ pc = "generate_embeddings"
    /\ chunk_overlap >= chunk_size
    /\ Len(trimmed) >= 3
    /\ iterations = Len(trimmed)
    /\ end = Len(trimmed)

\* C11 (as claimed): for text longer than chunk_size and valid parameters,
\* every pair of adjacent chunks except possibly the last pair shares at least
\* one whitespace-delimited token.
C11_AdjacentChunksShareToken ==
    SplitReturned /\ ValidParameters /\ Len(strip(text)) > chunk_size =>
        \A i \in 1..(Len(chunks) - 2) :
            Tokens(chunks[i].text) \cap Tokens(chunks[i + 1].text) # {}

\* C11 (amended): adjacent chunks share a token whenever a whole
\* whitespace-delimited token of the trimmed text lies inside the [start, end)
\* range of both chunks: that token is then a token of both chunk texts.
C11_SharedTokenWhenInOverlap ==
    SplitReturned /\ ValidParameters /\ Len(strip(text)) > chunk_size =>
        \A i \in 1..(Len(chunks) - 1) :
            \A pq \in TokenSpans(strip(text)) :
                /\ chunks[i].start <= pq[1]
                /\ chunks[i + 1].start <= pq[1]
                /\ pq[2] <= chunks[i].end
                /\ pq[2] <= chunks[i + 1].end
                => /\ Slice(strip(text), pq[1], pq[2]) \in Tokens(chunks[i].text)
                   /\ Slice(strip(text), pq[1], pq[2]) \in Tokens(chunks[i + 1].text)

C11_Witness ==
    /\ SplitReturned
    /\ ValidParameters
    /\ Len(chunks) >= 3
    /\ chunks[3].start < chunks[2].end
    /\ \E pq \in TokenSpans(trimmed) :
          /\ chunks[3].start <= pq[1]
          /\ pq[2] < chunks[2].end
          /\ Slice(trimmed, pq[1], pq[2]) \in
                Tokens(chunks[2].text) \cap Tokens(chunks[3].text)

\* C12: clean_text with the default patterns is idempotent:
\* clean_text(clean_text(s)) == clean_text(s) for every string s, also when a
\* zero-width character is adjacent to whitespace.
C12_CleanTextIdempotent ==
    pc = "clean_text_again_done" => recleaned = result

\* C13: clean_text(None), split_text(None) and extract_metadata(None) raise
\* TextProcessingError, ChunkingError and MetadataExtractionError; on every
\* string they return, and on "" they return "", the single empty chunk and
\* {length 0, word_count 0, line_count 1, has_paragraphs false}.
C13_AbsentInputErrorKinds ==
    /\ pc = "clean_text_done" =>
          /\ text = None <=> "raised" \in DOMAIN result
          /\ text = None => result.raised.kind = "TextProcessingError"
          /\ text = <<>> => result = [returned |-> <<>>]
    /\ pc = "extract_metadata_done" =>
          /\ text = None <=> "raised" \in DOMAIN result
          /\ text = None => result.raised.kind = "MetadataExtractionError"
          /\ text = <<>> =>
                result = [returned |-> [length |-> 0, word_count |-> 0,
                                        line_count |-> 1, has_paragraphs |-> FALSE]]
    /\ pc \in {"loop", "generate_embeddings", "returned"} => text # None
    /\ pc = "raised" /\ text = None =>
          error.kind = "ChunkingError" /\ chunks = <<>>
    /\ SplitReturned /\ text = <<>> =>
          chunks = <<[text |-> <<>>, start |-> 0, end |-> 0, index |-> 0]>>

C13_Witness ==
    /\ pc = "clean_text_done"
    /\ text = None
    /\ result.raised.kind = "TextProcessingError"

\* C14: for non-empty text has_paragraphs is true exactly when the text has
\* more than one newline-separated line and one of the lines is empty or
\* whitespace-only; a text ending in a single newline has has_paragraphs.
C14_HasParagraphs ==
    pc = "extract_metadata_done" /\ text # None /\ text # <<>> =>
        LET n == Len(text)
            \* offsets where a line starts / ends
            LineStart(p) == p = 0 \/ text[p] = Newline
            LineEnd(q) == q = n \/ text[q + 1] = Newline
            BlankLine(p, q) ==
                /\ p <= q
                /\ LineStart(p)
                /\ LineEnd(q)
                /\ \A i \in (p + 1)..q : text[i] \in Whitespace \ {Newline}
        IN  /\ result.returned.has_paragraphs <=>
                  /\ \E i \in 1..n : text[i] = Newline
                  /\ \E p, q \in 0..n : BlankLine(p, q)
            /\ text[n] = Newline /\ (n = 1 \/ text[n - 1] # Newline) =>
                  result.returned.has_paragraphs

C14_Witness ==
    /\ pc = "extract_metadata_done"
    /\ text = <<Letter, Space, Letter, Newline>>
    /\ result.returned.has_paragraphs
    /\ result.returned.line_count = 2

\* the number of slices of b texts in n texts: ceil(n / b)
NumBatches(n, b) == (n + b - 1) \div b

\* the last k elements of a sequence
LastOf(s, k) == SubSeq(s, Len(s) - k + 1, Len(s))

\* the provider failure is the transient unavailability
IsServiceUnavailable(e) == e.kind = "openai.APIError" /\ MentionsServiceUnavailable(e)

\* C15: when the caller is cancelled during the embedding call, the
\* cancellation leaves generate_embeddings and process_document as a
\* CancelledError: it is neither retried, nor wrapped into another error, nor
\* turned into a returned value, and process_document returns no chunk list.
C15_CancellationPropagates ==
    cancelled =>
        /\ pc \in {"cancelled", "openai_cancelled"}
        /\ pc = "cancelled" => outcome = CancelledError /\ error = NoValue
        /\ pc = "openai_cancelled" => result = Raise(CancelledError)

C15_Witness ==
    /\ cancelled
    /\ pc = "cancelled"
    /\ Len(chunks) >= 2

\* C16: a generate_embeddings call that returns has issued, in its last
\* attempt, exactly one provider call per contiguous slice of batch_size
\* texts, in increasing order, ceil(len(texts) / batch_size) of them, and it
\* returns the concatenation of the answers: result i is the vector of
\* texts[i].  While a call is in flight, the calls of the attempt so far are
\* the first slices in order.
C16_BatchesInOrder ==
    /\ pc = "openai_returned" =>
          LET k == NumBatches(Len(texts), batch_size) IN
          /\ Len(calls) >= k
          /\ attempt = 1 => Len(calls) = k
          /\ LastOf(calls, k) =
                [j \in 1..k |-> Slice(texts, (j - 1) * batch_size, j * batch_size)]
          /\ result = Return([i \in 1..Len(texts) |-> Vector(texts[i])])
    /\ pc = "openai_await" =>
          LET j == (batch_start \div batch_size) + 1 IN
          /\ Len(calls) >= j
          /\ LastOf(calls, j) =
                [m \in 1..j |-> Slice(texts, (m - 1) * batch_size, m * batch_size)]
          /\ Len(all_embeddings) = batch_start

C16_Witness ==
    /\ pc = "openai_returned"
    /\ Len(texts) > batch_size
    /\ Len(texts) % batch_size # 0
    /\ batch_size > 1

C18_OnlyUnavailableRetried ==
    /\ \A k \in 1..Len(failures) :
          k < Len(failures) => IsServiceUnavailable(failures[k])
    /\ (pc = "openai_raised" /\ failures # <<>>) =>
          LET e == failures[Len(failures)] IN
          /\ "raised" \in DOMAIN result
          /\ Len(failures) = attempt
          /\ e.kind = "openai.RateLimitError" =>
                result.raised.kind = "RateLimitError"
          /\ e.kind = "openai.AuthenticationError" =>
                result.raised.kind = "AuthenticationError"
          /\ (e.kind \notin {"openai.RateLimitError", "openai.AuthenticationError"}
                /\ ~ IsServiceUnavailable(e)) =>
                result.raised.kind = "EmbeddingError"
    /\ (pc # "idle" /\ attempt > 0 /\ texts = <<>>) =>
          /\ pc = "openai_raised"
          /\ result = Raise(Exc("ValueError", "Input texts cannot be empty"))
          /\ calls = <<>>
          /\ attempt = 1

C18_Witness ==
    /\ pc = "openai_raised"
    /\ failures # <<>>
    /\ failures[Len(failures)].kind = "openai.RateLimitError"
    /\ Len(calls) >= 2

\* C19: under every interleaving of two process_document calls on the same
\* DocumentService, each call hands to the embedding call the chunks that
\* split_text computes alone on the call's own text and returns them with
\* their vectors attached, or raises the wrapped failure of its own call; no
\* step of a call writes chunk_size or chunk_overlap.
C19_NoInterference ==
    /\ [](\A t \in Threads :
            /\ thread_pc[t] = "generate_embeddings" =>
                  Return(locals[Frame(t)].chunks) = split_text(thread_text[t])
            /\ thread_pc[t] = "returned" =>
                  /\ thread_text[t] # None
                  /\ LET cs == split_text(thread_text[t]).returned IN
                     thread_outcome[t] = Zip(cs, Vectors(Len(cs)))
            /\ thread_pc[t] = "raised" =>
                  IF thread_text[t] = None
                  THEN thread_outcome[t] = DocumentProcessingError(ChunkingError)
                  ELSE \E e \in EmbeddingFailures :
                          thread_outcome[t] = DocumentProcessingError(e))
    /\ [][chunk_size' = chunk_size /\ chunk_overlap' = chunk_overlap]_vars

C19_Witness ==
    /\ thread_pc["t1"] = "loop"
    /\ thread_pc["t2"] = "returned"
    /\ locals["t1"].chunks # <<>>
    /\ Len(thread_outcome["t2"]) >= 2
    /\ thread_text["t1"] # thread_text["t2"]

\* C20: what get_logging_context returns in a thread holds no key that
\* another thread added, and what get_correlation_id returns in a thread is
\* not a correlation ID set in another thread.
C20_ContextIsolated ==
    \A t \in Threads :
        /\ seen_context[t] \subseteq {Key(t)}
        /\ \A u \in Threads \ {t} : seen_cid[t] = NoValue \/ seen_cid[t] # cid[u]

\* the positions of the client.create_index calls among the backend calls
CreationAttempts ==
    {k \in DOMAIN backend_calls : backend_calls[k].call = "create_index"}

\* every creation attempt so far was answered with a rate-limit failure
EveryAttemptRateLimited ==
    /\ CreationAttempts # {}
    /\ \A k \in DOMAIN backend_calls :
          backend_calls[k].raised =
            IF k \in CreationAttempts THEN "rate limit exceeded" ELSE ""

\* C21 (as claimed): create_index retries a rate-limited creation; when every
\* attempt is rate-limited it waits for another attempt only before the
\* third creation attempt, and it ends after 3 creation attempts with
\* RateLimitError.
C21_StopsAfterThreeAttempts ==
    EveryAttemptRateLimited =>
        /\ pc = "create_index_backoff" => Cardinality(CreationAttempts) < 3
        /\ pc = "create_index_raised" =>
              /\ Cardinality(CreationAttempts) = 3
              /\ result.raised.kind = "RateLimitError"

\* C22 (as claimed): describe_index raises IndexNotFoundError whenever the
\* backend listed its indexes and the name is not among them, and
\* ServiceUnavailableError only after another failure.
C22_MissingIndexNotFound ==
    pc = "describe_index_raised" =>
        LET last == backend_calls[Len(backend_calls)]
            unlisted == last.call = "list_indexes" /\ last.raised = ""
        IN  /\ unlisted => result.raised.kind = "IndexNotFoundError"
            /\ result.raised.kind = "ServiceUnavailableError" => ~ unlisted

\* C23 (as claimed): when the embedding capability is the OpenAIService, whose
\* generate_embeddings is asynchronous, process_document on a valid text
\* comes back only with the completed call: it returns its chunks, each
\* carrying a vector, and never works on the still-pending call.
C23_MergesCompletedEmbeddings ==
    (text # None /\ pc \in {"returned", "raised"} /\ embeddings = Coroutine) =>
        /\ pc = "returned"
        /\ \A i \in 1..Len(outcome) : "embedding" \in DOMAIN outcome[i]

\* C24: process_document invokes the embedding capability at most once, only
\* after split_text has returned, with the texts of the chunks in index
\* order; the batch is not empty for a non-null text, and when split_text
\* raises the capability is not invoked.
C24_OneCallAfterSplit ==
    /\ Len(batches) <= 1
    /\ pc \in {"idle", "split_text", "loop", "generate_embeddings"} => batches = <<>>
    /\ (pc = "raised" /\ text = None) => batches = <<>> /\ error = ChunkingError
    /\ batches # <<>> =>
          /\ text # None
          /\ Return(chunks) = split_text(text)
          /\ batches[1] # <<>>
          /\ Len(batches[1]) = Len(chunks)
          /\ \A i \in 1..Len(chunks) :
                chunks[i].index = i - 1 /\ batches[1][i] = chunks[i].text

C24_Witness ==
    /\ pc = "returned"
    /\ Len(batches) = 1
    /\ Len(batches[1]) >= 2
    /\ batches[1][1] # batches[1][2]

\* C25: in the multi-chunk case every returned chunk's text is the slice
\* trimmed[start:end] stripped of surrounding whitespace and is not empty,
\* start and end being the offsets of the window itself; each loop iteration
\* either appends that chunk with the current index and advances the index,
\* or, when the window holds only whitespace, appends nothing and keeps the
\* index.
C25_EmittedTextIsTrimmedWindow ==
    /\ []((SplitReturned /\ Len(trimmed) > chunk_size) =>
            \A i \in 1..Len(chunks) :
                /\ chunks[i].text =
                      strip(Slice(trimmed, chunks[i].start, chunks[i].end))
                /\ chunks[i].text # <<>>)
    /\ [][pc = "loop" =>
            LET window == Slice(trimmed, start, end') IN
            IF AllWhitespace(window)
            THEN chunks' = chunks /\ index' = index
            ELSE /\ chunks' = Append(chunks, [text |-> strip(window), start |-> start,
                                               end |-> end', index |-> index])
                 /\ index' = index + 1]_vars

C25_Witness ==
    /\ SplitReturned
    /\ Len(trimmed) > chunk_size
    /\ iterations > Len(chunks)
    /\ \E i \in 1..Len(chunks) :
          /\ chunks[i].start > 0
          /\ Len(chunks[i].text) < chunks[i].end - chunks[i].start
          /\ trimmed[chunks[i].start + 1] \in Whitespace

\* C26: each window of split_text starts at or before the end of the window
\* before it, and every position of the trimmed text that holds a
\* non-whitespace character lies in [start, end) of a returned chunk.
C26_NoContentLost ==
    /\ [](SplitReturned =>
            \A p \in 1..Len(trimmed) :
                trimmed[p] \notin Whitespace =>
                    \E i \in 1..Len(chunks) :
                        chunks[i].start <= p - 1 /\ p - 1 < chunks[i].end)
    /\ [][(pc = "loop" /\ pc' = "loop") => start' <= end']_vars

C26_Witness ==
    /\ SplitReturned
    /\ chunk_overlap = 0
    /\ Len(chunks) >= 2
    /\ iterations > Len(chunks)
    /\ \E i \in 1..(Len(chunks) - 1) : chunks[i + 1].start > chunks[i].end

\* C27: for a non-empty trimmed text the first chunk returned by split_text
\* starts at 0 and the last one ends at len(trimmed text).
C27_FirstAndLastWindowEmitted ==
    (SplitReturned /\ trimmed # <<>>) =>
        /\ chunks # <<>>
        /\ chunks[1].start = 0
        /\ chunks[Len(chunks)].end = Len(trimmed)

C27_Witness ==
    /\ SplitReturned
    /\ Len(chunks) >= 3
    /\ iterations > Len(chunks)
    /\ chunks[1].start = 0
    /\ chunks[Len(chunks)].end = Len(trimmed)
    /\ Len(trimmed) < Len(text)

\* C28 (as claimed): for text longer than chunk_size and valid parameters the
\* end offsets of the returned chunks strictly increase with the index.
C28_EndsStrictlyIncrease ==
    (SplitReturned /\ ValidParameters /\ Len(trimmed) > chunk_size) =>
        \A i \in 1..(Len(chunks) - 1) : chunks[i].end < chunks[i + 1].end

\* C29: adjacent chunks returned by split_text share at most chunk_overlap
\* characters: end(i) - start(i+1) <= chunk_overlap.
C29_OverlapBounded ==
    SplitReturned =>
        \A i \in 1..(Len(chunks) - 1) :
            chunks[i].end - chunks[i + 1].start <= chunk_overlap

C29_Witness ==
    /\ SplitReturned
    /\ chunk_overlap > 0
    /\ \E i, j \in 1..(Len(chunks) - 1) :
          /\ chunks[i].end - chunks[i + 1].start = chunk_overlap
          /\ chunks[j].end - chunks[j + 1].start < chunk_overlap

\* C30: every attempt of generate_embeddings, the first one and each retried
\* one, starts at the first batch with an empty accumulator; while a call is
\* in flight the accumulator holds the vectors of the earlier batches of the
\* same attempt only; a call that returns, after retries or not, returns
\* exactly one vector per input text, the i-th for texts[i]; a call that
\* fails returns no list.
C30_RetryStartsFromEmpty ==
    /\ [](/\ pc = "openai_await" =>
                all_embeddings = [i \in 1..batch_start |-> Vector(texts[i])]
          /\ pc = "openai_returned" =>
                /\ Len(result.returned) = Len(texts)
                /\ \A i \in 1..Len(texts) : result.returned[i] = Vector(texts[i])
          /\ pc \in {"openai_raised", "openai_cancelled"} =>
                DOMAIN result = {"raised"})
    /\ [][pc = "openai_backoff" => all_embeddings' = <<>> /\ batch_start' = 0]_vars

C30_Witness ==
    /\ pc = "openai_returned"
    /\ attempt = StopAfterAttempt
    /\ Len(texts) > batch_size
    /\ Len(calls) > NumBatches(Len(texts), batch_size) + attempt - 1

====
